---- MODULE Spec2Model ----
(***************************************************************************)
(* SuiMail off-chain companion service (src/fastapi/test.py, models.py,    *)
(* pydantic_models.py): the relational mirror of users, mailboxes and      *)
(* messages, and the HTTP handlers over it.                                *)
(*                                                                         *)
(* The store is an external MySQL database (models.py:6-8); importing      *)
(* models.py only creates the tables that are missing (models.py:98) and   *)
(* never empties them, so a process starts on whatever rows the database   *)
(* already holds.  Init therefore ranges over the bounded databases that   *)
(* satisfy the declared constraints (primary keys, unique columns, foreign *)
(* keys); the empty database is one of them.                               *)
(***************************************************************************)
EXTENDS Integers, Sequences, FiniteSets, TLC

VARIABLES
    users,      \* rows of table "users"
    mailboxes,  \* rows of table "mailboxes"
    messages,   \* rows of table "messages_with_nft"
    tokens,     \* bearer tokens handed out by login and held by clients
    pending,    \* per worker: the create_mailbox request between its query and its commit
    last,       \* the last response sent: [op, req, status, body]
    registry,   \* rows of table "mailbox_registry"
    kiosks,     \* rows of table "kiosks"
    kiosk_items,\* rows of table "kiosk_items"
    now,        \* the clock, in ticks
    issued      \* per token held: the tick login last handed it out at

vars == <<users, mailboxes, messages, tokens, pending, last,
          registry, kiosks, kiosk_items, now, issued>>

\* what the handlers of users, mailboxes and messages never touch
market == <<kiosks, kiosk_items>>

----------------------------------------------------------------------------
(* Bounds and input domains *)

MaxStoredMessages == 1
\* the clock advances in ticks of TickMinutes minutes, MaxTicks times at most
MaxTicks == 3
TickMinutes == 30

Wallets == {"0xA", "0xB"}
MailboxIds == {"mbx1", "mbx2"}
Cids == {"", "Qm123"}
KioskIds == {"k1", "k2"}
ItemIds == {"i1", "i2"}
Usernames == {"alice", "bob"}
Bios == {"hi", "gm"}
Bodies == {"hello"}
NftIds == {"0xNFT"}
Prices == {5}
Timestamps == {1000}
Workers == {"h1", "h2"}

\* Python's None and a present Optional value
None == <<>>
Some(v) == <<v>>

Idle == <<>>
NoResponse == [op |-> "none", req |-> <<>>, status |-> 0, body |-> <<>>]

RECURSIVE SetMax(_)
SetMax(S) ==
    IF S = {} THEN 0
    ELSE LET x == CHOOSE y \in S : TRUE
             m == SetMax(S \ {x})
         IN IF x > m THEN x ELSE m

\* rows of a table in primary-key order
RECURSIVE RowsById(_)
RowsById(rows) ==
    IF rows = {} THEN <<>>
    ELSE LET r == CHOOSE x \in rows : \A y \in rows : x.id <= y.id
         IN <<r>> \o RowsById(rows \ {r})

\* obj.name on a Python object: present attributes read, absent ones raise AttributeError
HasAttr(obj, name) == name \in DOMAIN obj

Restrict(rec, fields) == [f \in (DOMAIN rec) \cap fields |-> rec[f]]

----------------------------------------------------------------------------
(* Configuration *)

SECRET_KEY == "suimailrocks"
ACCESS_TOKEN_EXPIRE_MINUTES == 60

\* the Fernet key generated when the module is imported
key == "fernet-key-of-this-process"

----------------------------------------------------------------------------
(* Cipher: Fernet tokens are strings; one decrypts only under the key that *)
(* made it, and then to the text it was made from                          *)

Encrypt(k, plaintext) == "gAAAAA[" \o k \o "|" \o plaintext \o "]"

\* cipher.decrypt raises InvalidToken on anything that is no token of this key
DecryptOk(k, token) == \E b \in Bodies : token = Encrypt(k, b)

Decrypt(k, token) == CHOOSE b \in Bodies : token = Encrypt(k, b)

----------------------------------------------------------------------------
(* Schema: columns and constraints *)

MessageWithNFTColumns ==
    {"id", "sender", "receiver", "cid", "timestamp", "nft_object_id", "claim_price",
     "mailbox_id"}

\* mailboxes.owner_wallet declared without unique=True
MailboxInsertViolatesOwnerNotUnique(row) ==
    \/ \E m \in mailboxes : m.mailbox_id = row.mailbox_id
    \/ ~ \E u \in users : u.wallet_address = row.owner_wallet

\* the INSERT of a mailbox row is refused (IntegrityError) when
\* mailbox_id or owner_wallet is taken, or the owner is no user
MailboxInsertViolates(row) ==
    \/ \E m \in mailboxes : m.mailbox_id = row.mailbox_id
    \/ \E m \in mailboxes : m.owner_wallet = row.owner_wallet
    \/ ~ \E u \in users : u.wallet_address = row.owner_wallet

\* the INSERT of a message row is refused when its mailbox_id names no mailbox
MessageInsertViolates(row) ==
    ~ \E m \in mailboxes : m.mailbox_id = row.mailbox_id

----------------------------------------------------------------------------
(* Request models *)

UserCreateFields == {"wallet_address", "username", "display_name", "bio", "avatar_cid"}

MailboxCreateFields == {"mailbox_id", "owner_wallet"}

MessageCreateFields == {"sender", "receiver", "cid", "timestamp", "mailbox_id"}

\* pydantic keeps the declared fields of a request body and ignores the others
MessageCreate(body) == Restrict(body, MessageCreateFields)

MailboxCreate(body) == Restrict(body, MailboxCreateFields)

UserCreate(body) == Restrict(body, UserCreateFields)

----------------------------------------------------------------------------
(* Authentication *)

\* jwt.encode({"sub": wallet_address}, SECRET_KEY): the payload carries no expiry
JwtEncode(payload, secret) == [payload |-> payload, sig |-> secret]

\* jwt.decode raises JWTError unless the token was signed with the secret;
\* it compares the clock with the payload's "exp" only where the payload has one
JwtDecodeOk(token, secret) ==
    /\ token.sig = secret
    /\ HasAttr(token.payload, "exp") => now * TickMinutes < token.payload.exp

ForgedTokens == {JwtEncode([sub |-> w], "not-the-secret") : w \in Wallets}

\* get_current_user: [ok, status, user]
get_current_user(token) ==
    IF ~ JwtDecodeOk(token, SECRET_KEY)
    THEN [ok |-> FALSE, status |-> 401, user |-> None]
    ELSE IF ~ HasAttr(token.payload, "sub")
    THEN [ok |-> FALSE, status |-> 401, user |-> None]
    ELSE LET found == {u \in users : u.wallet_address = token.payload.sub}
         IN IF found = {}
            THEN [ok |-> FALSE, status |-> 401, user |-> None]
            ELSE [ok |-> TRUE, status |-> 200, user |-> Some(CHOOSE u \in found : TRUE)]

\* login: [status, token]
login(wallet_address) ==
    IF ~ \E u \in users : u.wallet_address = wallet_address
    THEN [status |-> 401, token |-> None]
    ELSE [status |-> 200, token |-> Some(JwtEncode([sub |-> wallet_address], SECRET_KEY))]

----------------------------------------------------------------------------
(* Handlers: each yields the response status and the table it leaves *)

\* register_user storing the submitted profile over the one already registered
register_user_overwriting(body) ==
    LET user == UserCreate(body)
    IN IF \E u \in users : u.wallet_address = user.wallet_address
       THEN [status |-> 400,
             users |-> {u \in users : u.wallet_address # user.wallet_address} \cup {user}]
       ELSE [status |-> 200, users |-> users \cup {user}]

\* register_user: [status, users]
register_user(body) ==
    LET user == UserCreate(body)
    IN IF \E u \in users : u.wallet_address = user.wallet_address
       THEN [status |-> 400, users |-> users]
       ELSE [status |-> 200, users |-> users \cup {user}]

\* update_profile, after get_current_user: [status, users]
update_profile(profile, current_user) ==
    LET found == {u \in users : u.wallet_address = current_user.wallet_address}
    IN IF found = {}
       THEN [status |-> 404, users |-> users]
       ELSE LET user == CHOOSE u \in found : TRUE
            IN [status |-> 200,
                users |-> (users \ {user}) \cup {[user EXCEPT !.bio = profile.new_bio]}]

\* The kiosk handlers, after get_current_user: [status, kiosks, kiosk_items].
\* Rows are written without the surrogate id column, which no handler reads.

\* create_kiosk: the row is built from the body, owner_wallet included; an
\* owner_wallet that is no user breaks the foreign key and the commit fails
create_kiosk(kiosk, current_user) ==
    IF \E k \in kiosks : k.kiosk_id = kiosk.kiosk_id
    THEN [status |-> 400, kiosks |-> kiosks, kiosk_items |-> kiosk_items]
    ELSE IF ~ \E u \in users : u.wallet_address = kiosk.owner_wallet
    THEN [status |-> 500, kiosks |-> kiosks, kiosk_items |-> kiosk_items]
    ELSE [status |-> 200,
          kiosks |-> kiosks \cup {[kiosk_id |-> kiosk.kiosk_id,
                                   owner_wallet |-> kiosk.owner_wallet]},
          kiosk_items |-> kiosk_items]

\* get_kiosk: [status, body]
get_kiosk(kiosk_id) ==
    LET found == {k \in kiosks : k.kiosk_id = kiosk_id}
    IN IF found = {}
       THEN [status |-> 404, body |-> None]
       ELSE [status |-> 200, body |-> Some(CHOOSE k \in found : TRUE)]

\* the kiosk with this kiosk_id column value that current_user owns, if any;
\* a NULL kiosk_id equals no kiosk's
OwnedKiosk(kiosk_ref, current_user) ==
    {k \in kiosks : /\ Some(k.kiosk_id) = kiosk_ref
                    /\ k.owner_wallet = current_user.wallet_address}

\* add_kiosk_item: item_id is unique, a second row with it fails the commit
add_kiosk_item(item, current_user) ==
    IF OwnedKiosk(Some(item.kiosk_id), current_user) = {}
    THEN [status |-> 403, kiosks |-> kiosks, kiosk_items |-> kiosk_items]
    ELSE IF \E i \in kiosk_items : i.item_id = item.item_id
    THEN [status |-> 500, kiosks |-> kiosks, kiosk_items |-> kiosk_items]
    ELSE [status |-> 200, kiosks |-> kiosks,
          kiosk_items |-> kiosk_items \cup
              {[item_id |-> item.item_id, kiosk_id |-> Some(item.kiosk_id),
                title |-> item.title, content_cid |-> item.content_cid,
                price |-> item.price]}]

\* delete_kiosk_item deleting whatever item it finds
delete_kiosk_item_any_user(item_id, current_user) ==
    LET found == {i \in kiosk_items : i.item_id = item_id}
    IN IF found = {}
       THEN [status |-> 404, kiosks |-> kiosks, kiosk_items |-> kiosk_items]
       ELSE [status |-> 200, kiosks |-> kiosks, kiosk_items |-> kiosk_items \ found]

delete_kiosk_item(item_id, current_user) ==
    LET found == {i \in kiosk_items : i.item_id = item_id}
    IN IF found = {}
       THEN [status |-> 404, kiosks |-> kiosks, kiosk_items |-> kiosk_items]
       ELSE LET item == CHOOSE i \in found : TRUE
            IN IF OwnedKiosk(item.kiosk_id, current_user) = {}
               THEN [status |-> 403, kiosks |-> kiosks, kiosk_items |-> kiosk_items]
               ELSE [status |-> 200, kiosks |-> kiosks,
                     kiosk_items |-> kiosk_items \ {item}]

\* buy_kiosk_item: no authentication
buy_kiosk_item(item_id) ==
    LET found == {i \in kiosk_items : i.item_id = item_id}
    IN IF found = {}
       THEN [status |-> 404, kiosks |-> kiosks, kiosk_items |-> kiosk_items]
       ELSE [status |-> 200, kiosks |-> kiosks, kiosk_items |-> kiosk_items \ found]

\* db.delete(kiosk) on a parent whose relationship "items" has no delete
\* cascade: the unit of work sets the kiosk_id of the kiosk's items to NULL,
\* then deletes the kiosk row
DeleteKioskRow(kiosk) ==
    [status |-> 200,
     kiosks |-> kiosks \ {kiosk},
     kiosk_items |-> {IF i.kiosk_id = Some(kiosk.kiosk_id)
                      THEN [i EXCEPT !.kiosk_id = None]
                      ELSE i : i \in kiosk_items}]

delete_kiosk(kiosk_id, current_user) ==
    LET found == OwnedKiosk(Some(kiosk_id), current_user)
    IN IF found = {}
       THEN [status |-> 403, kiosks |-> kiosks, kiosk_items |-> kiosk_items]
       ELSE DeleteKioskRow(CHOOSE k \in found : TRUE)

\* create_mailbox, first statement: is a mailbox with this mailbox_id stored?
MailboxExists(mailbox_id) == \E m \in mailboxes : m.mailbox_id = mailbox_id

\* create_mailbox, db.add and db.commit: an IntegrityError is not caught,
\* the request ends as an internal server error and the row is not stored
CommitMailbox(mailbox) ==
    LET db_mailbox == [id |-> SetMax({m.id : m \in mailboxes}) + 1,
                       mailbox_id |-> mailbox.mailbox_id,
                       owner_wallet |-> mailbox.owner_wallet]
    IN IF MailboxInsertViolates(db_mailbox)
       THEN [status |-> 500, mailboxes |-> mailboxes]
       ELSE [status |-> 200, mailboxes |-> mailboxes \cup {db_mailbox}]

\* create_mailbox without its query for an existing mailbox_id
create_mailbox_unchecked(body) == CommitMailbox(MailboxCreate(body))

\* create_mailbox served without interleaving: [status, mailboxes]
create_mailbox(body) ==
    LET mailbox == MailboxCreate(body)
    IN IF MailboxExists(mailbox.mailbox_id)
       THEN [status |-> 400, mailboxes |-> mailboxes]
       ELSE CommitMailbox(mailbox)

\* truth value of an Optional[str] in `if x`
Truthy(x) == x # None /\ x # Some("")

\* store_message after its test of the CID: encrypt, build the row, commit
EncryptAndCommit(msg) ==
    IF ~ HasAttr(msg, "content")
    \* msg.content raises AttributeError inside the try: "Error encrypting message content"
    THEN [status |-> 500, messages |-> messages]
    ELSE IF ~ (HasAttr(msg, "nft_object_id") /\ HasAttr(msg, "claim_price"))
    \* AttributeError outside the try: internal server error
    THEN [status |-> 500, messages |-> messages]
    ELSE LET encrypted_content ==
                 IF Truthy(msg.content)
                 THEN Some(Encrypt(key, msg.content[1]))
                 ELSE None
             db_msg == [id |-> SetMax({m.id : m \in messages}) + 1,
                        sender |-> msg.sender,
                        receiver |-> msg.receiver,
                        cid |-> msg.cid,
                        content |-> encrypted_content,
                        timestamp |-> msg.timestamp,
                        nft_object_id |-> msg.nft_object_id,
                        claim_price |-> msg.claim_price,
                        mailbox_id |-> msg.mailbox_id]
         IN IF ~ (DOMAIN db_msg \subseteq MessageWithNFTColumns)
            \* the constructor rejects a keyword that is no column (TypeError)
            THEN [status |-> 500, messages |-> messages]
            ELSE IF MessageInsertViolates(db_msg)
            THEN [status |-> 500, messages |-> messages]
            ELSE [status |-> 200, messages |-> messages \cup {db_msg}]

\* store_message without its test of the CID
store_message_any_cid(body) == EncryptAndCommit(MessageCreate(body))

\* store_message writing the request body as it came, content included
store_message_as_received(body) ==
    IF body.cid = ""
    THEN [status |-> 400, messages |-> messages]
    ELSE LET db_msg == [id |-> SetMax({m.id : m \in messages}) + 1,
                        sender |-> body.sender,
                        receiver |-> body.receiver,
                        cid |-> body.cid,
                        content |-> body.content,
                        timestamp |-> body.timestamp,
                        nft_object_id |-> body.nft_object_id,
                        claim_price |-> body.claim_price,
                        mailbox_id |-> body.mailbox_id]
         IN IF MessageInsertViolates(db_msg)
            THEN [status |-> 500, messages |-> messages]
            ELSE [status |-> 200, messages |-> messages \cup {db_msg}]

\* store_message: [status, messages]
store_message(body) ==
    LET msg == MessageCreate(body)
    IN IF msg.cid = ""
       THEN [status |-> 400, messages |-> messages]
       ELSE EncryptAndCommit(msg)

\* one pass of the loop body of get_messages raises
RowRaises(msg) ==
    \/ ~ HasAttr(msg, "content")
    \/ /\ msg.content # None
       /\ ~ DecryptOk(key, msg.content[1])

RowView(msg) ==
    [id |-> msg.id,
     sender |-> msg.sender,
     receiver |-> msg.receiver,
     cid |-> msg.cid,
     content |-> IF msg.content = None THEN None ELSE Some(Decrypt(key, msg.content[1])),
     timestamp |-> msg.timestamp,
     nft_object_id |-> msg.nft_object_id,
     claim_price |-> msg.claim_price,
     mailbox_id |-> msg.mailbox_id]

\* the rows the query of get_messages selects
MessagesOf(wallet_address) ==
    {m \in messages : m.sender = wallet_address \/ m.receiver = wallet_address}

\* get_messages for an authenticated user: [status, body]
get_messages(current_user) ==
    LET rows == RowsById(MessagesOf(current_user.wallet_address))
    IN IF \E i \in 1..Len(rows) : RowRaises(rows[i])
       THEN [status |-> 500, body |-> <<>>]
       ELSE [status |-> 200, body |-> [i \in 1..Len(rows) |-> RowView(rows[i])]]

----------------------------------------------------------------------------
(* Requests the clients send *)

RegisterRequests ==
    [wallet_address : Wallets, username : {"alice"}, display_name : {"Alice"},
     bio : {"hi"}, avatar_cid : {"QmAvatar"}]

\* registrations that differ in the profile they submit
ProfileRequests ==
    [wallet_address : Wallets, username : Usernames, display_name : {"Alice"},
     bio : Bios, avatar_cid : {"QmAvatar"}]

ProfileUpdateRequests == [profile_id : {"profile1"}, new_bio : Bios]

KioskRequests == [kiosk_id : KioskIds, owner_wallet : Wallets]

KioskItemRequests ==
    [item_id : ItemIds, kiosk_id : KioskIds, title : {"Art"}, content_cid : {"Qm123"},
     price : Prices]

MailboxRequests == [mailbox_id : MailboxIds, owner_wallet : Wallets]

\* a message goes from one wallet to another
StoreRequests ==
    {r \in [sender : Wallets, receiver : Wallets, cid : Cids,
            content : {None} \cup {Some(b) : b \in Bodies},
            timestamp : Timestamps,
            nft_object_id : {None} \cup {Some(n) : n \in NftIds},
            claim_price : {None} \cup {Some(p) : p \in Prices},
            mailbox_id : MailboxIds] : r.sender # r.receiver}

----------------------------------------------------------------------------
(* The databases a process can start on *)

StoredUsers == {{UserCreate(r) : r \in {q \in RegisterRequests : q.wallet_address \in S}} :
                    S \in SUBSET Wallets}

StoredMailboxes(us) ==
    {M \in SUBSET [id : 1..Cardinality(MailboxIds), mailbox_id : MailboxIds,
                   owner_wallet : {u.wallet_address : u \in us}] :
        /\ {m.id : m \in M} = 1..Cardinality(M)
        /\ \A a, b \in M :
              (a.id = b.id \/ a.mailbox_id = b.mailbox_id \/ a.owner_wallet = b.owner_wallet)
                  => a = b}

\* message rows already in the table: plain messages, no NFT attached
StoredMessages(mbs) ==
    {M \in SUBSET [id : 1..MaxStoredMessages, sender : Wallets, receiver : Wallets,
                   cid : Cids \ {""}, timestamp : Timestamps,
                   nft_object_id : {None}, claim_price : {None},
                   mailbox_id : {m.mailbox_id : m \in mbs}] :
        /\ Cardinality(M) <= MaxStoredMessages
        /\ {m.id : m \in M} = 1..Cardinality(M)
        /\ \A a, b \in M : a.id = b.id => a = b}

Init ==
    /\ users \in StoredUsers
    /\ mailboxes \in StoredMailboxes(users)
    /\ messages \in StoredMessages(mailboxes)
    /\ tokens = {}
    /\ pending = [w \in Workers |-> Idle]
    /\ last = NoResponse
    \* no handler writes mailbox_registry: the mailboxes above came without registry rows
    /\ registry = {}
    /\ kiosks = {}
    /\ kiosk_items = {}
    /\ now = 0
    /\ issued = <<>>

----------------------------------------------------------------------------
(* Actions: one request served *)

Respond(op, req, status, body) ==
    last' = [op |-> op, req |-> req, status |-> status, body |-> body]

RegisterWith(body) ==
    LET r == register_user(body)
    IN /\ users' = r.users
       /\ Respond("register", body, r.status, <<>>)
       /\ UNCHANGED <<mailboxes, messages, tokens, pending, registry, market, now, issued>>

Register == \E body \in RegisterRequests : RegisterWith(body)

Login ==
    \E wallet_address \in Wallets :
        LET r == login(wallet_address)
        IN /\ tokens' = IF r.status = 200 THEN tokens \cup {r.token[1]} ELSE tokens
           /\ issued' = IF r.status = 200
                        THEN [t \in tokens' |-> IF t = r.token[1] THEN now ELSE issued[t]]
                        ELSE issued
           /\ Respond("login", wallet_address, r.status, r.token)
           /\ UNCHANGED <<users, mailboxes, messages, pending, registry, market, now>>

CreateMailbox ==
    \E body \in MailboxRequests :
        LET r == create_mailbox(body)
        IN /\ mailboxes' = r.mailboxes
           /\ Respond("create_mailbox", body, r.status, <<>>)
           /\ UNCHANGED <<users, messages, tokens, pending, registry, market, now, issued>>

StoreMessage ==
    \E body \in StoreRequests :
        LET r == store_message(body)
        IN /\ messages' = r.messages
           /\ Respond("store_message", body, r.status, <<>>)
           /\ UNCHANGED <<users, mailboxes, tokens, pending, registry, market, now, issued>>

GetMessages ==
    \E token \in tokens \cup ForgedTokens :
        LET auth == get_current_user(token)
        IN /\ IF auth.ok
              THEN LET r == get_messages(auth.user[1])
                   IN Respond("get_messages", token, r.status, r.body)
              ELSE Respond("get_messages", token, auth.status, <<>>)
           /\ UNCHANGED <<users, mailboxes, messages, tokens, pending, registry, market,
                         now, issued>>

Next == Register \/ Login \/ CreateMailbox \/ StoreMessage \/ GetMessages

Spec == Init /\ [][Next]_vars

----------------------------------------------------------------------------
(* Accounts: registrations with differing profiles, logins, profile updates *)

RegisterProfile == \E body \in ProfileRequests : RegisterWith(body)

UpdateProfile ==
    \E token \in tokens \cup ForgedTokens, profile \in ProfileUpdateRequests :
        LET auth == get_current_user(token)
            req == [token |-> token, profile |-> profile]
        IN /\ IF auth.ok
              THEN LET r == update_profile(profile, auth.user[1])
                   IN /\ users' = r.users
                      /\ Respond("update_profile", req, r.status, <<>>)
              ELSE /\ users' = users
                   /\ Respond("update_profile", req, auth.status, <<>>)
           /\ UNCHANGED <<mailboxes, messages, tokens, pending, registry, market, now, issued>>

\* a database with users only
InitAccounts == Init /\ mailboxes = {} /\ messages = {}

NextAccounts == RegisterProfile \/ Login \/ UpdateProfile

SpecAccounts == InitAccounts /\ [][NextAccounts]_vars

----------------------------------------------------------------------------
(* Sessions: tokens presented to a protected endpoint as time passes *)

Tick ==
    /\ now < MaxTicks
    /\ now' = now + 1
    /\ UNCHANGED <<users, mailboxes, messages, tokens, pending, last, registry, market,
                   issued>>

NextSession == Register \/ Login \/ GetMessages \/ UpdateProfile \/ Tick

SpecSession == InitAccounts /\ [][NextSession]_vars

----------------------------------------------------------------------------
(* The marketplace: kiosks and their items *)

\* a request to a protected kiosk endpoint: get_current_user, then the handler
Protected(op, token, arg, r) ==
    LET auth == get_current_user(token)
        req == [token |-> token, arg |-> arg]
    IN /\ IF auth.ok
          THEN LET res == r[auth.user[1].wallet_address]
               IN /\ kiosks' = res.kiosks
                  /\ kiosk_items' = res.kiosk_items
                  /\ Respond(op, req, res.status, <<>>)
          ELSE /\ UNCHANGED market
               /\ Respond(op, req, auth.status, <<>>)
       /\ UNCHANGED <<users, mailboxes, messages, tokens, pending, registry, now, issued>>

CreateKiosk ==
    \E token \in tokens \cup ForgedTokens, kiosk \in KioskRequests :
        Protected("create_kiosk", token, kiosk,
                  [w \in Wallets |-> create_kiosk(kiosk, [wallet_address |-> w])])

AddKioskItem ==
    \E token \in tokens \cup ForgedTokens, item \in KioskItemRequests :
        Protected("add_kiosk_item", token, item,
                  [w \in Wallets |-> add_kiosk_item(item, [wallet_address |-> w])])

DeleteKioskItem ==
    \E token \in tokens \cup ForgedTokens, item_id \in ItemIds :
        Protected("delete_kiosk_item", token, item_id,
                  [w \in Wallets |-> delete_kiosk_item(item_id, [wallet_address |-> w])])

DeleteKiosk ==
    \E token \in tokens \cup ForgedTokens, kiosk_id \in KioskIds :
        Protected("delete_kiosk", token, kiosk_id,
                  [w \in Wallets |-> delete_kiosk(kiosk_id, [wallet_address |-> w])])

BuyKioskItem ==
    \E item_id \in ItemIds :
        LET r == buy_kiosk_item(item_id)
        IN /\ kiosks' = r.kiosks
           /\ kiosk_items' = r.kiosk_items
           /\ Respond("buy_kiosk_item", item_id, r.status, <<>>)
           /\ UNCHANGED <<users, mailboxes, messages, tokens, pending, registry, now, issued>>

GetKiosk ==
    \E kiosk_id \in KioskIds :
        LET r == get_kiosk(kiosk_id)
        IN /\ Respond("get_kiosk", kiosk_id, r.status, r.body)
           /\ UNCHANGED <<users, mailboxes, messages, tokens, pending, registry, market,
                         now, issued>>

NextMarket ==
    \/ Register \/ Login
    \/ CreateKiosk \/ AddKioskItem \/ DeleteKioskItem \/ DeleteKiosk
    \/ BuyKioskItem \/ GetKiosk

SpecMarket == InitAccounts /\ [][NextMarket]_vars

----------------------------------------------------------------------------
(* The mailbox directory under concurrent workers: create_mailbox's query   *)
(* and its commit are two statements, and another worker's request may run  *)
(* between them                                                             *)

CreateMailboxQuery(w) ==
    /\ pending[w] = Idle
    /\ \E body \in MailboxRequests :
          IF MailboxExists(MailboxCreate(body).mailbox_id)
          THEN /\ Respond("create_mailbox", body, 400, <<>>)
               /\ UNCHANGED <<users, mailboxes, messages, tokens, pending, registry, market,
                               now, issued>>
          ELSE /\ pending' = [pending EXCEPT ![w] = Some(body)]
               /\ UNCHANGED <<users, mailboxes, messages, tokens, last, registry, market,
                               now, issued>>

CreateMailboxCommit(w) ==
    /\ pending[w] # Idle
    /\ LET body == pending[w][1]
           r == CommitMailbox(MailboxCreate(body))
       IN /\ mailboxes' = r.mailboxes
          /\ Respond("create_mailbox", body, r.status, <<>>)
          /\ pending' = [pending EXCEPT ![w] = Idle]
          /\ UNCHANGED <<users, messages, tokens, registry, market, now, issued>>

NextConcurrent ==
    \/ Register
    \/ \E w \in Workers : CreateMailboxQuery(w)
    \/ \E w \in Workers : CreateMailboxCommit(w)

SpecConcurrent == Init /\ [][NextConcurrent]_vars

----------------------------------------------------------------------------
(* Properties *)

Registered(wallet_address) == \E u \in users : u.wallet_address = wallet_address

UserOf(wallet_address) == CHOOSE u \in users : u.wallet_address = wallet_address

StoreStep == last'.op = "store_message"

ExactlyOneOf(a, b) == (a = None) # (b = None)

\* the wallet an accepted get_messages request was made for
ListedWallet == get_current_user(last.req).user[1].wallet_address

ListedIds == {last.body[i].id : i \in 1..Len(last.body)}

\* C1: after register(w), create_mailbox(m, w) and store_message(sender w, non-empty
\* cid c, body b, mailbox m), get_messages for w returns exactly one record, with
\* cid c and content b.
C1_StoredMessageIsListedWithItsBody ==
    [][\A w \in Wallets :
          (/\ StoreStep
           /\ last'.req.sender = w
           /\ last'.req.cid # ""
           /\ last'.req.content # None
           /\ Registered(w)
           /\ \E m \in mailboxes : /\ m.mailbox_id = last'.req.mailbox_id
                                   /\ m.owner_wallet = w
           /\ MessagesOf(w) = {})
          => /\ get_messages(UserOf(w))'.status = 200
             /\ Len(get_messages(UserOf(w))'.body) = 1
             /\ get_messages(UserOf(w))'.body[1].cid = last'.req.cid
             /\ get_messages(UserOf(w))'.body[1].content = last'.req.content]_vars

C5_EmptyCidRejectedWithoutChange ==
    [][(StoreStep /\ last'.req.cid = "")
       => (last'.status = 400 /\ messages' = messages)]_vars

C5_Witness ==
    /\ last.op = "store_message"
    /\ last.req.cid = ""
    /\ last.req.content # None
    /\ last.req.nft_object_id # None
    /\ last.status = 400

\* C6: store_message with exactly one of nft_object_id and claim_price set is
\* answered with a validation error (400 or 422) and stores nothing.
C6_UnpairedNftFieldsRejectedAsInvalid ==
    [][(StoreStep /\ ExactlyOneOf(last'.req.nft_object_id, last'.req.claim_price))
       => (last'.status \in {400, 422} /\ messages' = messages)]_vars

\* C7: store_message naming a mailbox_id that no mailbox has is answered
\* 404 NotFound and stores nothing.
C7_UnknownMailboxRejectedAsNotFound ==
    [][(/\ StoreStep
        /\ last'.req.cid # ""
        /\ ~ ExactlyOneOf(last'.req.nft_object_id, last'.req.claim_price)
        /\ ~ MailboxExists(last'.req.mailbox_id))
       => (last'.status = 404 /\ messages' = messages)]_vars

\* C8: of two concurrent create_mailbox requests for one mailbox_id, the one
\* that commits after the row exists is answered 400 "Mailbox already exists"
\* and adds no row.
C8_LateWriterGetsAlreadyExists ==
    [][\A w \in Workers :
          (/\ pending[w] # Idle
           /\ pending'[w] = Idle
           /\ MailboxExists(pending[w][1].mailbox_id))
          => (last'.status = 400 /\ mailboxes' = mailboxes)]_vars

\* C9: create_mailbox for a mailbox_id that is already bound is answered 400
\* and leaves the mailbox with its original owner.
C9_SecondCreateRejectedOwnerKept ==
    [][(last'.op = "create_mailbox" /\ MailboxExists(last'.req.mailbox_id))
       => (last'.status = 400 /\ mailboxes' = mailboxes)]_vars

C9_Witness ==
    /\ last.op = "create_mailbox"
    /\ last.status = 400
    /\ \E m \in mailboxes : /\ m.mailbox_id = last.req.mailbox_id
                            /\ m.owner_wallet # last.req.owner_wallet
    /\ Registered(last.req.owner_wallet)
    /\ ~ \E m \in mailboxes : m.owner_wallet = last.req.owner_wallet

OneMailboxPerOwnerAndId ==
    \A a, b \in mailboxes :
        (a.owner_wallet = b.owner_wallet \/ a.mailbox_id = b.mailbox_id) => a = b

\* C10: every owner has at most one mailbox, every mailbox_id at most one
\* owner, and a stored mailbox row keeps its mailbox_id and owner for good.
C10_MailboxBindingUniqueAndPermanent ==
    /\ []OneMailboxPerOwnerAndId
    /\ [][\A m \in mailboxes : m \in mailboxes']_vars

\* a request for a second mailbox of an owner was refused at commit
C10_Witness ==
    /\ last.op = "create_mailbox"
    /\ last.status = 500
    /\ ~ MailboxExists(last.req.mailbox_id)
    /\ \E m \in mailboxes : m.owner_wallet = last.req.owner_wallet

\* the registry row that mirrors a mailbox row
RegistryMirrors(m) ==
    \E r \in registry : r.owner_wallet = m.owner_wallet /\ r.mailbox_id = m.mailbox_id

\* C11: create_mailbox writes the Mailbox row and its MailboxRegistry row in one
\* unit of work: once it has answered 200, the new mailbox has its registry row
\* (and every registry row has its mailbox).
C11_MailboxCreatedWithRegistryRow ==
    [][(last'.op = "create_mailbox" /\ last'.status = 200)
       => /\ \A m \in mailboxes' \ mailboxes : RegistryMirrors(m)'
          /\ \A r \in registry' : \E m \in mailboxes' :
                 r.owner_wallet = m.owner_wallet /\ r.mailbox_id = m.mailbox_id]_vars

\* C12: a register call for a wallet address that is already registered is
\* answered 400 "User already registered" and leaves the users table, and so
\* the username, display_name, bio and avatar_cid stored for it, as they were.
C12_SecondRegisterRejectedProfileKept ==
    [][(last'.op = "register" /\ Registered(last'.req.wallet_address))
       => (last'.status = 400 /\ users' = users)]_vars

\* a rejected registration that submitted another username and bio than the stored ones
C12_Witness ==
    /\ last.op = "register"
    /\ last.status = 400
    /\ Registered(last.req.wallet_address)
    /\ UserOf(last.req.wallet_address).username # last.req.username
    /\ UserOf(last.req.wallet_address).bio # last.req.bio

\* minutes since login last issued token t
TokenAge(t) == (now - issued[t]) * TickMinutes

\* the token a request to a protected endpoint presented
PresentedToken(response) ==
    IF response.op = "get_messages" THEN response.req ELSE response.req.token

\* C13: a token that login issued is accepted by a protected endpoint only
\* within ACCESS_TOKEN_EXPIRE_MINUTES of its issue: presented later, the
\* request is answered 401.
C13_ExpiredTokenRejected ==
    [][\A t \in tokens :
          (/\ now' = now
           /\ last'.op \in {"get_messages", "update_profile"}
           /\ PresentedToken(last') = t
           /\ TokenAge(t) > ACCESS_TOKEN_EXPIRE_MINUTES)
          => last'.status = 401]_vars

\* the user a kiosk request was made by, where its token names one
Caller(response) == get_current_user(response.req.token)

KioskOf(kiosk_id) == {k \in kiosks : k.kiosk_id = kiosk_id}

ItemOf(item_id) == {i \in kiosk_items : i.item_id = item_id}

\* the user owns the kiosk that the item with this item_id is in
OwnsItem(user, item_id) ==
    \E i \in ItemOf(item_id), k \in kiosks :
        i.kiosk_id = Some(k.kiosk_id) /\ k.owner_wallet = user.wallet_address

OwnsKiosk(user, kiosk_id) ==
    \E k \in KioskOf(kiosk_id) : k.owner_wallet = user.wallet_address

\* C14: delete_kiosk on a stored kiosk and delete_kiosk_item on a stored item,
\* called by a user who does not own the kiosk (the item's kiosk), are answered
\* 403 and leave kiosks and items as they were; called by the owner they are
\* answered 200, the row is gone, and a lookup of it (get_kiosk, or the item
\* query of buy_kiosk_item) answers 404.
C14_OnlyTheOwnerDeletes ==
    [][/\ \A kiosk_id \in KioskIds :
            (/\ last'.op = "delete_kiosk"
             /\ last'.req.arg = kiosk_id
             /\ Caller(last').ok
             /\ KioskOf(kiosk_id) # {})
            => IF OwnsKiosk(Caller(last').user[1], kiosk_id)
               THEN /\ last'.status = 200
                    /\ KioskOf(kiosk_id)' = {}
                    /\ get_kiosk(kiosk_id)'.status = 404
               ELSE /\ last'.status = 403
                    /\ UNCHANGED market
       /\ \A item_id \in ItemIds :
            (/\ last'.op = "delete_kiosk_item"
             /\ last'.req.arg = item_id
             /\ Caller(last').ok
             /\ ItemOf(item_id) # {})
            => IF OwnsItem(Caller(last').user[1], item_id)
               THEN /\ last'.status = 200
                    /\ ItemOf(item_id)' = {}
                    /\ buy_kiosk_item(item_id)'.status = 404
               ELSE /\ last'.status = 403
                    /\ UNCHANGED market]_vars

\* a user who does not own it was refused the deletion of a kiosk that holds an item
C14_Witness ==
    /\ last.op = "delete_kiosk"
    /\ last.status = 403
    /\ Caller(last).ok
    /\ \E k \in KioskOf(last.req.arg) :
          /\ k.owner_wallet # Caller(last).user[1].wallet_address
          /\ \E i \in kiosk_items : i.kiosk_id = Some(k.kiosk_id)

\* C15: every stored kiosk item's kiosk_id is the kiosk_id of a stored kiosk,
\* whatever kiosk requests were served; deleting a kiosk leaves none of its items
\* behind without one.
C15_EveryItemInAnExistingKiosk ==
    \A i \in kiosk_items : \E k \in kiosks : i.kiosk_id = Some(k.kiosk_id)

====
